---- MODULE Spec2Model ----
(***************************************************************************)
(* A model of granian_web: route registration and dispatch (wrapper.py,    *)
(* class App), the translation of responses into transport calls           *)
(* (App.__call__, responses.py), the per-request context with its memoized *)
(* accessors (wrapper.py, class Context), the body decoding pipeline       *)
(* (util.py) and the example application (app.py).                         *)
(*                                                                         *)
(* Text (str) is a sequence of one-character strings; bytes is a sequence  *)
(* of integers in 0..255.                                                  *)
(***************************************************************************)
EXTENDS Integers, Sequences, FiniteSets, TLC

(***************************************************************************)
(* Text helpers: str.strip(c), str.split(c), startswith, endswith.         *)
(***************************************************************************)
RECURSIVE LStrip(_, _)
LStrip(s, c) ==
    IF s # <<>> /\ Head(s) = c THEN LStrip(Tail(s), c) ELSE s

RECURSIVE RStrip(_, _)
RStrip(s, c) ==
    IF s # <<>> /\ s[Len(s)] = c THEN RStrip(SubSeq(s, 1, Len(s) - 1), c) ELSE s

Strip(s, c) == RStrip(LStrip(s, c), c)

\* s.split(c): always at least one piece; "" splits to [""].
RECURSIVE SplitFrom(_, _, _)
SplitFrom(s, c, cur) ==
    IF s = <<>> THEN <<cur>>
    ELSE IF Head(s) = c THEN <<cur>> \o SplitFrom(Tail(s), c, <<>>)
    ELSE SplitFrom(Tail(s), c, Append(cur, Head(s)))

Split(s, c) == SplitFrom(s, c, <<>>)

StartsWith(s, c) == s # <<>> /\ Head(s) = c
EndsWith(s, c) == s # <<>> /\ s[Len(s)] = c
Contains(s, c) == \E i \in 1..Len(s) : s[i] = c

(***************************************************************************)
(* App._compile_parametric.  The compiled pattern "^/" t1 "/" t2 ... "$"   *)
(* is a sequence of atoms between the two anchors: a literal character     *)
(* (what re.escape makes of every character of a literal segment), or a    *)
(* named group (?P<name>[^/]+).                                            *)
(***************************************************************************)
Lit(c) == [atom |-> "lit", ch |-> c, name |-> <<>>]
Group(n) == [atom |-> "group", ch |-> "", name |-> n]

\* re.escape(segment): every character becomes an atom matching itself only.
ReEscape(segment) == [i \in 1..Len(segment) |-> Lit(segment[i])]

\* One token of the pattern per template segment (wrapper.py 230-234).
Token(segment) ==
    IF StartsWith(segment, "{") /\ EndsWith(segment, "}")
    THEN <<Group(SubSeq(segment, 2, Len(segment) - 1))>>
    ELSE ReEscape(segment)

\* "/".join(tokens)
RECURSIVE JoinTokens(_)
JoinTokens(segs) ==
    IF Len(segs) = 1 THEN Token(segs[1])
    ELSE Token(segs[1]) \o <<Lit("/")>> \o JoinTokens(Tail(segs))

\* The characters a group name may be made of, among the model's alphabet
\* (re requires an identifier).
NameChars == {"a", "b", "x", "y", "f", "i", "l", "e"}

GroupNames(atoms) ==
    [i \in {j \in 1..Len(atoms) : atoms[j].atom = "group"} |-> atoms[i].name]

\* re.compile rejects a group name that is not an identifier and a name
\* defined twice.
CompileOk(atoms) ==
    LET g == GroupNames(atoms) IN
    /\ \A i \in DOMAIN g : g[i] # <<>> /\ \A k \in 1..Len(g[i]) : g[i][k] \in NameChars
    /\ \A i, j \in DOMAIN g : i # j => g[i] # g[j]

\* The compiled pattern; ok is FALSE when re.compile raises re.error.
CompileParametric(path) ==
    LET atoms == <<Lit("/")>> \o JoinTokens(Split(Strip(path, "/"), "/")) IN
    [ok |-> CompileOk(atoms), atoms |-> atoms]

(***************************************************************************)
(* regex.match(path) for such a pattern: a backtracking matcher.  "$"      *)
(* matches at the end of the text and also just before a newline that is   *)
(* the last character.  A group is greedy: the longest run of non-"/"      *)
(* characters first, then shorter ones.                                    *)
(***************************************************************************)
DollarAt(s, p) == p = Len(s) + 1 \/ (p = Len(s) /\ s[p] = "\n")

RECURSIVE RunLen(_, _)
RunLen(s, p) == IF p <= Len(s) /\ s[p] # "/" THEN 1 + RunLen(s, p + 1) ELSE 0

EmptyDict == [k \in {} |-> <<>>]

\* The result of regex.match: None, or a match object with its groupdict().
NoMatch == [matched |-> FALSE, groupdict |-> EmptyDict]
Matched(env) == [matched |-> TRUE, groupdict |-> env]

RECURSIVE MatchFrom(_, _, _, _, _)
RECURSIVE TryGroup(_, _, _, _, _, _)
MatchFrom(atoms, i, s, p, env) ==
    IF i > Len(atoms) THEN (IF DollarAt(s, p) THEN Matched(env) ELSE NoMatch)
    ELSE IF atoms[i].atom = "lit"
    THEN IF p <= Len(s) /\ s[p] = atoms[i].ch
         THEN MatchFrom(atoms, i + 1, s, p + 1, env)
         ELSE NoMatch
    ELSE TryGroup(atoms, i, s, p, env, RunLen(s, p))

TryGroup(atoms, i, s, p, env, n) ==
    IF n < 1 THEN NoMatch
    ELSE LET captured == SubSeq(s, p, p + n - 1)
             env2 == [k \in DOMAIN env \cup {atoms[i].name} |->
                        IF k = atoms[i].name THEN captured ELSE env[k]]
             r == MatchFrom(atoms, i + 1, s, p + n, env2)
         IN IF r.matched THEN r ELSE TryGroup(atoms, i, s, p, env, n - 1)

\* regex.match(path)
RegexMatch(regex, path) == MatchFrom(regex, 1, path, 1, EmptyDict)

(***************************************************************************)
(* Python values: a value is a tagged record; an ordered dict is the       *)
(* sequence of its items.                                                  *)
(***************************************************************************)
NoneV == [t |-> "None"]
BytesV(b) == [t |-> "bytes", b |-> b]
StrV(s) == [t |-> "str", s |-> s]
ListV(items) == [t |-> "list", items |-> items]
IntV(n) == [t |-> "int", n |-> n]
BoolV(x) == [t |-> "bool", x |-> x]
DictV(items) == [t |-> "dict", items |-> items]
\* An async generator object of parse_qs(arg), created and not yet run.
AsyncGenV(arg) == [t |-> "async_generator", fn |-> "parse_qs", arg |-> arg]
\* The Context object itself.
ContextV == [t |-> "Context"]

(***************************************************************************)
(* Bounds and input sets of the routing model.                             *)
(***************************************************************************)
\* At most this many routes (static, parametric, fallback) are registered.
MaxRoutes == 2

\* Handler functions; NotCallable stands for any value that is not callable.
Handlers == {"h1", "h2"}
NotCallable == "not_callable"

\* str.upper() on the method names of the model.
Upper(m) ==
    CASE m = "get" -> "GET"
      [] m = "post" -> "POST"
      [] OTHER -> m

RegMethods == {"get", "GET", "POST", "*"}
ReqMethods == {"GET", "post"}

Star == <<"*">>
PathA == <<"/", "a">>
PathB == <<"/", "b">>
PathAB == <<"/", "a", "/", "b">>
TplX == <<"/", "{", "x", "}">>
TplAX == <<"/", "a", "/", "{", "x", "}">>
TplBad == <<"/", "{", "}">>

RegPaths == {Star, PathA, TplX, TplAX, TplBad}
ReqPaths == {PathA, PathB, PathAB}

(***************************************************************************)
(* Responses (responses.py): the variant, the status code and the message. *)
(***************************************************************************)
PlainTextResponse(message, status_code) ==
    [variant |-> "PlainText", status_code |-> status_code, message |-> message]

\* The base class: Response(status_code, message).
Response(status_code, message) ==
    [variant |-> "Response", status_code |-> status_code, message |-> message]

\* json.dumps(data) on the data of the model.
JsonDumps(data) ==
    CASE data = "None" -> "null"
      [] data = "{'a': 1}" -> "{\"a\": 1}"
      [] OTHER -> "\"?\""

JSONResponse(data, status_code) ==
    [variant |-> "JSON", status_code |-> status_code, message |-> JsonDumps(data),
     data |-> data]

\* The message of an HTMLResponse is "OK"; the markup is kept aside.
HTMLResponse(html_content, status_code) ==
    [variant |-> "HTML", status_code |-> status_code, message |-> "OK",
     html_content |-> html_content]

FileResponse(file_path, status_code) ==
    [variant |-> "File", status_code |-> status_code, message |-> "OK",
     file_path |-> file_path]

\* body is the producer: the sequence of the chunks it yields.
StreamResponse(body, status_code, content_type) ==
    [variant |-> "Stream", status_code |-> status_code, message |-> "",
     body |-> body, content_type |-> content_type]

\* isinstance(response, Response): every variant is a subclass.
IsResponse(resp) ==
    resp.variant \in {"Response", "PlainText", "JSON", "HTML", "File", "Stream"}

\* to_dict().get("content_type", default): the base class has no such key.
ContentType(resp, default) ==
    CASE resp.variant = "PlainText" -> "text/plain"
      [] resp.variant = "JSON" -> "application/json"
      [] resp.variant = "HTML" -> "text/html"
      [] resp.variant = "File" -> "application/octet-stream"
      [] resp.variant = "Stream" -> resp.content_type
      [] OTHER -> default

\* The messages of the model that are bytes objects; all others are str.
BytesMessages == {"b'hi'", "b'{\"x\":1}'"}

\* A bytes payload taken for text.
IsBytesNever(message) == FALSE

\* isinstance(response.message, bytes)
IsBytes(message) == message \in BytesMessages

NoResponse == [variant |-> "none", status_code |-> 0, message |-> ""]

\* What a handler returns that returns None.
NoneReturned == [variant |-> "NoneType", status_code |-> 0, message |-> ""]

(***************************************************************************)
(* State of the application.                                               *)
(*   static      App._static: (path, method) -> handler                    *)
(*   parametric  App._parametric: list of (regex, method, handler)         *)
(*   fallback    App._fallback: <<>> for None, else <<method, handler>>    *)
(*   last        what the most recent call (register or handler) did       *)
(***************************************************************************)
VARIABLES static, parametric, fallback, last

tableVars == <<static, parametric, fallback>>
routeVars == <<static, parametric, fallback, last>>

(***************************************************************************)
(* State of one run of App.__call__ (wrapper.py 139-224).                  *)
(*   producer     the chunks the body of a StreamResponse yields           *)
(*   response     what App.handler returned                                *)
(*   hraised      how the user handler raised: "none", "binding" (the call *)
(*                itself, a TypeError) or "body"                           *)
(*   status_code  the local variable of that name                          *)
(*   trace        the calls made on the transport and on the stream sink,  *)
(*                in order, each with whether it raised                    *)
(*   pulled       how many chunks were taken from the producer             *)
(*   logged       the status codes of the access-log lines written         *)
(*   cpc          idle, start, translate, pull, send, done                 *)
(***************************************************************************)
VARIABLES producer, response, hraised, status_code, trace, pulled, logged, cpc

callVars == <<producer, response, hraised, status_code, trace, pulled, logged, cpc>>

(***************************************************************************)
(* The handler functions.  A signature is the names of the parameters in   *)
(* order and whether there is a **params parameter.  App.handler calls     *)
(* func(context) or fn(context, **match.groupdict()).                      *)
(***************************************************************************)
ParamContext == <<"c", "o", "n", "t", "e", "x", "t">>
ParamRequest == <<"r", "e", "q", "u", "e", "s", "t">>
ParamProto == <<"p", "r", "o", "t", "o">>
ParamFile == <<"f", "i", "l", "e">>

\* The handlers of app.py.
AppHandlers == {"index", "echo", "send_file_test", "serve_file", "get_body"}

\* Handlers written for the call convention, one per kind of return value.
VariantHandlers == {"plain", "rawbytes", "base", "json", "html", "file", "stream", "none"}

Signature(fn) ==
    CASE fn = "serve_file" ->
           [params |-> <<ParamRequest, ParamProto, ParamFile>>, var_keyword |-> FALSE]
      [] fn \in AppHandlers ->
           [params |-> <<ParamRequest, ParamProto>>, var_keyword |-> FALSE]
      [] OTHER ->
           [params |-> <<ParamContext>>, var_keyword |-> TRUE]

\* The binding of one positional argument and the keyword arguments to the
\* parameters; FALSE when Python raises TypeError (a parameter without a
\* value, an unexpected keyword, two values for the first parameter).
BindOk(fn, kwargs) ==
    LET sig == Signature(fn) IN
    /\ Len(sig.params) >= 1
    /\ sig.params[1] \notin DOMAIN kwargs
    /\ \A i \in 2..Len(sig.params) : sig.params[i] \in DOMAIN kwargs
    /\ sig.var_keyword \/ \A k \in DOMAIN kwargs : \E i \in 1..Len(sig.params) : sig.params[i] = k

ReportPdf == <<"r", "e", "p", "o", "r", "t", ".", "p", "d", "f">>

\* f"Serving static file: {file}" on the file names of the model.
ServingFile(file) ==
    IF file = ReportPdf THEN "Serving static file: report.pdf"
    ELSE "Serving static file: (another name)"

\* A handler body that always raises: echo awaits the async generator
\* object parse_qs(...) (app.py 9), a TypeError.
BodyRaises(fn) == fn = "echo"

\* What the body of a handler returns when it does not raise.  get_body
\* returns the bytes it read from the stream, here those of {"x":1}.
HandlerReturn(fn, kwargs) ==
    CASE fn = "index" -> PlainTextResponse("Hello, World!", 200)
      [] fn = "send_file_test" -> FileResponse("test.txt", 200)
      [] fn = "serve_file" -> PlainTextResponse(ServingFile(kwargs[ParamFile]), 200)
      [] fn = "get_body" -> PlainTextResponse("b'{\"x\":1}'", 200)
      [] fn = "plain" -> PlainTextResponse("hi", 200)
      [] fn = "rawbytes" -> PlainTextResponse("b'hi'", 200)
      [] fn = "base" -> Response(201, "b'hi'")
      [] fn = "json" -> JSONResponse("{'a': 1}", 200)
      [] fn = "html" -> HTMLResponse("<p>hi</p>", 200)
      [] fn = "file" -> FileResponse("a/b.txt", 200)
      [] fn = "stream" -> StreamResponse(producer, 200, "text/event-stream")
      [] fn = "none" -> NoneReturned
      [] OTHER -> PlainTextResponse(fn, 200)

NoStatic == [k \in {} |-> ""]

RouteCount ==
    Cardinality(DOMAIN static) + Len(parametric) + (IF fallback = <<>> THEN 0 ELSE 1)

\* The record of a call: the operation and its arguments, what it raised,
\* and for a request the route kind chosen, the handlers invoked (with
\* their keyword arguments), the indexes of the parametric entries on
\* which regex.match was called, and the response.
Outcome(op, path, method, func, raised, route, invoked, tried, resp) ==
    [op |-> op, path |-> path, method |-> method, func |-> func, raised |-> raised,
     route |-> route, invoked |-> invoked, tried |-> tried, response |-> resp]

InitRoutes ==
    /\ static = NoStatic
    /\ parametric = <<>>
    /\ fallback = <<>>
    /\ last = Outcome("init", <<>>, "", "", "none", "none", <<>>, {}, NoResponse)

(***************************************************************************)
(* App.register(path, func, method)                                        *)
(***************************************************************************)
RegisterOutcome(path, method, func, raised) ==
    Outcome("register", path, method, func, raised, "none", <<>>, {}, NoResponse)

\* A key of the static table made of the raw method: an upper() forgotten.
RouteKeyRaw(path, method) == <<path, method>>

\* The key of the static table: the path and the upper-cased method.
RouteKey(path, method) == <<path, Upper(method)>>

\* The new value of the fallback slot: the latest registration.
SetFallback(method, func) == <<Upper(method), func>>

Register(path, func, method) ==
    LET key == RouteKey(path, method)
        compiled == CompileParametric(path)
    IN
    /\ RouteCount < MaxRoutes
    /\ IF func \notin Handlers
       THEN /\ last' = RegisterOutcome(path, method, func, "TypeError")
            /\ UNCHANGED tableVars
       ELSE IF path = Star
       THEN /\ fallback' = SetFallback(method, func)
            /\ last' = RegisterOutcome(path, method, func, "none")
            /\ UNCHANGED <<static, parametric>>
       ELSE IF ~Contains(path, "{")
       THEN IF key \in DOMAIN static
            THEN /\ last' = RegisterOutcome(path, method, func, "ValueError")
                 /\ UNCHANGED tableVars
            ELSE /\ static' = [k \in DOMAIN static \cup {key} |->
                                 IF k = key THEN func ELSE static[k]]
                 /\ last' = RegisterOutcome(path, method, func, "none")
                 /\ UNCHANGED <<parametric, fallback>>
       ELSE IF ~compiled.ok
       THEN /\ last' = RegisterOutcome(path, method, func, "re.error")
            /\ UNCHANGED tableVars
       ELSE /\ parametric' = Append(parametric,
                                [regex |-> compiled.atoms, method |-> Upper(method),
                                 fn |-> func])
            /\ last' = RegisterOutcome(path, method, func, "none")
            /\ UNCHANGED <<static, fallback>>

(***************************************************************************)
(* App.handler(scope, proto): static routes, then parametric routes in     *)
(* list order, then the fallback, then 404; an exception of the handler    *)
(* becomes a 500.                                                          *)
(***************************************************************************)
NotFound == [found |-> FALSE, fn |-> ""]

\* The loop without its method test.
RECURSIVE ScanAnyMethod(_, _, _, _, _)
ScanAnyMethod(entries, i, path, method, tried) ==
    IF i > Len(entries) THEN [index |-> 0, match |-> NoMatch, tried |-> tried]
    ELSE LET match == RegexMatch(entries[i].regex, path) IN
         IF match.matched
         THEN [index |-> i, match |-> match, tried |-> tried \cup {i}]
         ELSE ScanAnyMethod(entries, i + 1, path, method, tried \cup {i})

\* The for loop over self._parametric from entry i on: the index of the
\* first entry whose method equals the request's and whose regex matches
\* (0 when the loop ends without one), the match, and the entries on which
\* regex.match was called.
RECURSIVE Scan(_, _, _, _, _)
Scan(entries, i, path, method, tried) ==
    IF i > Len(entries) THEN [index |-> 0, match |-> NoMatch, tried |-> tried]
    ELSE IF entries[i].method # method
    THEN Scan(entries, i + 1, path, method, tried)
    ELSE LET match == RegexMatch(entries[i].regex, path) IN
         IF match.matched
         THEN [index |-> i, match |-> match, tried |-> tried \cup {i}]
         ELSE Scan(entries, i + 1, path, method, tried \cup {i})

\* The two stages swapped: a static entry is used only when the scan of
\* the parametric list finds nothing.
StaticGetAfterScan(path, method) ==
    IF Scan(parametric, 1, path, method, {}).index = 0 /\ <<path, method>> \in DOMAIN static
    THEN [found |-> TRUE, fn |-> static[<<path, method>>]]
    ELSE NotFound

\* self._static.get((path, method)), method already upper-cased.
StaticGet(path, method) ==
    IF <<path, method>> \in DOMAIN static
    THEN [found |-> TRUE, fn |-> static[<<path, method>>]]
    ELSE NotFound

\* A fallback that answers every method.
FallbackAppliesAlways(method) == fallback # <<>>

\* The test of the fallback slot against the request's method.
FallbackApplies(method) ==
    fallback # <<>> /\ (fallback[1] = method \/ fallback[1] = "*")

\* Whether the call fn(context, **kwargs) raises: the binding fails, the
\* body always raises, or it raises this time (raises: an exception of the
\* body, such as a decode error of the body or args accessor let through).
Raises(raises, fn, kwargs) == raises \/ ~BindOk(fn, kwargs) \/ BodyRaises(fn)

\* How the call raises, "none" when it returns.
RaisedIn(raises, fn, kwargs) ==
    IF ~BindOk(fn, kwargs) THEN "binding"
    ELSE IF raises \/ BodyRaises(fn) THEN "body"
    ELSE "none"

\* An except clause that answers with the text of the exception.
CallLeaks(raises, fn, kwargs) ==
    IF Raises(raises, fn, kwargs)
    THEN PlainTextResponse("the text of the exception", 500)
    ELSE HandlerReturn(fn, kwargs)

\* The call of a user handler: its response, or the 500 of the except
\* clause when it raises.
Call(raises, fn, kwargs) ==
    IF Raises(raises, fn, kwargs)
    THEN PlainTextResponse("Internal Server Error", 500)
    ELSE HandlerReturn(fn, kwargs)

Invoked(fn, kwargs) == <<[fn |-> fn, kwargs |-> kwargs]>>

\* What a request did: the route kind, the handlers invoked, the entries
\* on which regex.match was called, and the response returned.
Dispatched(route, invoked, tried, resp) ==
    [route |-> route, invoked |-> invoked, tried |-> tried, response |-> resp]

\* A handler that raises is passed over and the fallback is called too.
DispatchFallsThrough(path, method, raises) ==
    LET func == StaticGet(path, method)
        scan == Scan(parametric, 1, path, method, {})
        first == IF func.found THEN Invoked(func.fn, EmptyDict)
                 ELSE IF scan.index # 0
                 THEN Invoked(parametric[scan.index].fn, scan.match.groupdict)
                 ELSE <<>>
    IN
    IF first # <<>> /\ ~Raises(raises, first[1].fn, first[1].kwargs)
    THEN Dispatched(IF func.found THEN "static" ELSE "parametric", first,
                    IF func.found THEN {} ELSE scan.tried,
                    HandlerReturn(first[1].fn, first[1].kwargs))
    ELSE IF FallbackApplies(method)
    THEN Dispatched("fallback", first \o Invoked(fallback[2], EmptyDict), scan.tried,
                    Call(raises, fallback[2], EmptyDict))
    ELSE IF first # <<>>
    THEN Dispatched(IF func.found THEN "static" ELSE "parametric", first,
                    IF func.found THEN {} ELSE scan.tried,
                    PlainTextResponse("Internal Server Error", 500))
    ELSE Dispatched("none", <<>>, scan.tried, PlainTextResponse("Not Found", 404))

\* The try statement of App.handler (wrapper.py 113-137).
Dispatch(path, method, raises) ==
    LET func == StaticGet(path, method)
        scan == Scan(parametric, 1, path, method, {})
    IN
    IF func.found
    THEN Dispatched("static", Invoked(func.fn, EmptyDict), {},
                    Call(raises, func.fn, EmptyDict))
    ELSE IF scan.index # 0
    THEN Dispatched("parametric",
                    Invoked(parametric[scan.index].fn, scan.match.groupdict),
                    scan.tried,
                    Call(raises, parametric[scan.index].fn, scan.match.groupdict))
    ELSE IF FallbackApplies(method)
    THEN Dispatched("fallback", Invoked(fallback[2], EmptyDict), scan.tried,
                    Call(raises, fallback[2], EmptyDict))
    ELSE Dispatched("none", <<>>, scan.tried, PlainTextResponse("Not Found", 404))

Handle(path, reqMethod, raises) ==
    LET method == Upper(reqMethod)
        d == Dispatch(path, method, raises)
    IN
    /\ UNCHANGED tableVars
    /\ last' = Outcome("handler", path, method, "", "none", d.route, d.invoked,
                       d.tried, d.response)

RegisterStep ==
    \E path \in RegPaths, func \in Handlers \cup {NotCallable}, method \in RegMethods :
        Register(path, func, method)

HandleStep ==
    \E path \in ReqPaths, method \in ReqMethods, raises \in BOOLEAN :
        Handle(path, method, raises)

(***************************************************************************)
(* App.__call__(scope, proto) (wrapper.py 139-224): the handler is run and *)
(* its response translated into calls on the transport.  A call on the     *)
(* transport, a send on the stream sink and a pull from the producer may   *)
(* raise.                                                                  *)
(***************************************************************************)
\* A producer yields at most MaxProduced chunks.
MaxProduced == 2

ProducerChunks == {StrV(<<"a">>), BytesV(<<98>>)}
ProducerSeqs == UNION {[1..n -> ProducerChunks] : n \in 0..MaxProduced}

\* An entry of the trace: a response primitive of the transport with its
\* status, content type and body (or file), a send on the stream sink or
\* a pull from the producer with its chunk; ok is FALSE when it raised.
Event(prim, status, content_type, body, chunk, ok) ==
    [prim |-> prim, status |-> status, content_type |-> content_type,
     body |-> body, chunk |-> chunk, ok |-> ok]

CallIdle ==
    /\ producer = <<>>
    /\ response = NoResponse
    /\ hraised = "none"
    /\ status_code = 0
    /\ trace = <<>>
    /\ pulled = 0
    /\ logged = <<>>
    /\ cpc = "idle"

\* The paths of app.py and of the application of the variant handlers.
Root == <<"/">>
PathEcho == <<"/", "e", "c", "h", "o">>
PathTestfile == <<"/", "t", "e", "s", "t", "f", "i", "l", "e">>
PathGetBody == <<"/", "g", "e", "t", "-", "b", "o", "d", "y">>
TplTestFile == <<"/", "t", "e", "s", "t", "/", "{", "f", "i", "l", "e", "}">>
PathTestReport == <<"/", "t", "e", "s", "t", "/">> \o ReportPdf

\* The tables after the registrations of app.py 27-31.
ExampleStatic ==
    [k \in {<<Root, "GET">>, <<PathEcho, "GET">>, <<PathTestfile, "GET">>,
            <<PathGetBody, "POST">>} |->
        CASE k[1] = Root -> "index"
          [] k[1] = PathEcho -> "echo"
          [] k[1] = PathTestfile -> "send_file_test"
          [] OTHER -> "get_body"]

ExampleParametric ==
    <<[regex |-> CompileParametric(TplTestFile).atoms, method |-> "GET",
       fn |-> "serve_file"]>>

\* An application of the variant handlers: each registered for GET under
\* the path "/" and its name, "json" also for /a/{x} and "html" for
\* /{x}/b, "plain" as the fallback of every method.
VariantPath(fn) ==
    CASE fn = "plain" -> <<"/", "p", "l", "a", "i", "n">>
      [] fn = "rawbytes" -> <<"/", "r", "a", "w", "b", "y", "t", "e", "s">>
      [] fn = "base" -> <<"/", "b", "a", "s", "e">>
      [] fn = "json" -> <<"/", "j", "s", "o", "n">>
      [] fn = "html" -> <<"/", "h", "t", "m", "l">>
      [] fn = "file" -> <<"/", "f", "i", "l", "e">>
      [] fn = "stream" -> <<"/", "s", "t", "r", "e", "a", "m">>
      [] OTHER -> <<"/", "n", "o", "n", "e">>

VariantStatic ==
    [k \in {<<VariantPath(fn), "GET">> : fn \in VariantHandlers} |->
        CHOOSE fn \in VariantHandlers : VariantPath(fn) = k[1]]

TplXB == <<"/", "{", "x", "}", "/", "b">>

VariantParametric ==
    <<[regex |-> CompileParametric(TplAX).atoms, method |-> "GET", fn |-> "json"],
      [regex |-> CompileParametric(TplXB).atoms, method |-> "GET", fn |-> "html"]>>

VariantFallback == <<"*", "plain">>

CallPaths ==
    {Root, PathEcho, PathTestfile, PathGetBody, PathTestReport, PathAB}
        \cup {VariantPath(fn) : fn \in VariantHandlers}
CallMethods == {"GET", "post"}

InitCall ==
    /\ \/ static = ExampleStatic /\ parametric = ExampleParametric /\ fallback = <<>>
       \/ static = VariantStatic /\ parametric = VariantParametric
            /\ fallback = VariantFallback
    /\ last = Outcome("init", <<>>, "", "", "none", "none", <<>>, {}, NoResponse)
    /\ producer \in ProducerSeqs
    /\ response = NoResponse
    /\ hraised = "none"
    /\ status_code = 0
    /\ trace = <<>>
    /\ pulled = 0
    /\ logged = <<>>
    /\ cpc = "start"

\* Lines 140-145: status_code = 500; response = await self.handler(...).
CallHandler ==
    /\ cpc = "start"
    /\ \E path \in CallPaths, method \in CallMethods, raises \in BOOLEAN :
         LET d == Dispatch(path, Upper(method), raises) IN
         /\ Handle(path, method, raises)
         /\ response' = d.response
         /\ hraised' = IF d.invoked = <<>> THEN "none"
                        ELSE RaisedIn(raises, d.invoked[1].fn, d.invoked[1].kwargs)
    /\ status_code' = 500
    /\ cpc' = "translate"
    /\ UNCHANGED <<producer, trace, pulled, logged>>

\* The response_str call of the outer except clause (lines 216-221).
Recover(ok) ==
    Event("response_str", 500, "text/plain", "Internal Server Error", NoneV, ok)

\* The primitive for a response that is neither a file nor a stream.
PayloadPrimitive(message) ==
    IF IsBytes(message) THEN "response_bytes" ELSE "response_str"

\* Lines 146-224 up to the stream loop.  fails: the primitive of the
\* variant raises; fails500: the response_str of the outer except raises.
Translate ==
    /\ cpc = "translate"
    /\ \E fails, fails500 \in BOOLEAN :
         IF ~IsResponse(response)
         THEN \* response.status_code raises AttributeError: outer except
              /\ trace' = Append(trace, Recover(~fails500))
              /\ logged' = Append(logged, 500)
              /\ cpc' = "done"
              /\ UNCHANGED status_code
         ELSE IF response.variant = "File"
         THEN LET ev == Event("response_file", response.status_code,
                              "application/octet-stream", response.file_path,
                              NoneV, ~fails)
              IN
              /\ status_code' = response.status_code
              /\ trace' = IF fails THEN trace \o <<ev, Recover(~fails500)>>
                          ELSE Append(trace, ev)
              /\ logged' = Append(logged, IF fails THEN 500 ELSE response.status_code)
              /\ cpc' = "done"
         ELSE IF response.variant = "Stream"
         THEN /\ trace' = Append(trace,
                                 Event("response_stream", response.status_code,
                                       response.content_type, "", NoneV, ~fails))
              /\ status_code' = IF fails THEN 500 ELSE response.status_code
              /\ logged' = IF fails THEN Append(logged, 500) ELSE logged
              /\ cpc' = IF fails THEN "done" ELSE "pull"
         ELSE /\ trace' = Append(trace,
                                 Event(PayloadPrimitive(response.message),
                                       response.status_code,
                                       ContentType(response,
                                           IF IsBytes(response.message)
                                           THEN "application/octet-stream"
                                           ELSE "text/plain"),
                                       response.message, NoneV, ~fails))
              /\ status_code' = IF fails THEN 500 ELSE response.status_code
              /\ logged' = Append(logged, IF fails THEN 500 ELSE response.status_code)
              /\ cpc' = "done"
    /\ UNCHANGED <<routeVars, producer, response, hraised, pulled>>

\* "async for chunk in response.body": the producer is asked for its next
\* chunk; it yields one, stops, or raises.
StreamPull ==
    /\ cpc = "pull"
    /\ \E raises \in BOOLEAN :
         IF raises
         THEN /\ trace' = Append(trace, Event("__anext__", 0, "", "", NoneV, FALSE))
              /\ status_code' = 500
              /\ logged' = Append(logged, 500)
              /\ cpc' = "done"
              /\ UNCHANGED pulled
         ELSE IF pulled = Len(response.body)
         THEN /\ logged' = Append(logged, status_code)
              /\ cpc' = "done"
              /\ UNCHANGED <<trace, status_code, pulled>>
         ELSE /\ trace' = Append(trace, Event("__anext__", 0, "", "",
                                              response.body[pulled + 1], TRUE))
              /\ pulled' = pulled + 1
              /\ cpc' = "send"
              /\ UNCHANGED <<status_code, logged>>
    /\ UNCHANGED <<routeVars, producer, response, hraised>>

\* Every chunk through the bytes primitive.
ChunkPrimitiveBytes(chunk) == "send_bytes"

\* isinstance(chunk, str)
ChunkPrimitive(chunk) == IF chunk.t = "str" THEN "send_str" ELSE "send_bytes"

\* await transport.send_str(chunk) or send_bytes(chunk), which may raise.
StreamSend ==
    /\ cpc = "send"
    /\ \E fails \in BOOLEAN :
         LET chunk == response.body[pulled] IN
         /\ trace' = Append(trace, Event(ChunkPrimitive(chunk), 0, "", "", chunk, ~fails))
         /\ status_code' = IF fails THEN 500 ELSE status_code
         /\ logged' = IF fails THEN Append(logged, 500) ELSE logged
         /\ cpc' = IF fails THEN "done" ELSE "pull"
    /\ UNCHANGED <<routeVars, producer, response, hraised, pulled>>

(***************************************************************************)
(* The pattern compiler and matcher on their own: a template is compiled   *)
(* (App._compile_parametric) and the pattern is matched against a path     *)
(* (regex.match in App.handler).                                           *)
(***************************************************************************)
\* Paths of the matcher are all texts of at most MaxPathLen characters.
MaxPathLen == 5
PathChars == {"/", "a", "b", "\n"}
Paths == UNION {[1..n -> PathChars] : n \in 0..MaxPathLen}

TplXA == <<"/", "{", "x", "}", "/", "a">>
TplXY == <<"/", "{", "x", "}", "/", "{", "y", "}">>
TplAXSlash == <<"/", "a", "/", "{", "x", "}", "/">>
TplXBare == <<"{", "x", "}">>
TplDup == <<"/", "{", "x", "}", "/", "{", "x", "}">>
Templates == {TplX, TplAX, TplXA, TplXY, TplAXSlash, TplXBare, TplBad, TplDup}

\*   tpl, pth   the template and the request path
\*   regex      the compiled pattern
\*   mres       the result of regex.match
\*   mpc        idle, start, compiled, error (re.error raised), matched
VARIABLES tpl, pth, regex, mres, mpc

matchVars == <<tpl, pth, regex, mres, mpc>>

MatchIdle ==
    /\ tpl = <<>>
    /\ pth = <<>>
    /\ regex = <<>>
    /\ mres = NoMatch
    /\ mpc = "idle"

InitMatch ==
    /\ tpl \in Templates
    /\ pth \in Paths
    /\ regex = <<>>
    /\ mres = NoMatch
    /\ mpc = "start"

Compile ==
    /\ mpc = "start"
    /\ LET compiled == CompileParametric(tpl) IN
       IF compiled.ok
       THEN regex' = compiled.atoms /\ mpc' = "compiled"
       ELSE regex' = regex /\ mpc' = "error"
    /\ UNCHANGED <<tpl, pth, mres>>

Match ==
    /\ mpc = "compiled"
    /\ mres' = RegexMatch(regex, pth)
    /\ mpc' = "matched"
    /\ UNCHANGED <<tpl, pth, regex>>

(***************************************************************************)
(* Outcomes and decoders of the decoding pipeline (util.py).               *)
(***************************************************************************)
\* The outcome of a call: the exception raised ("none" when it returned)
\* and the value returned.
Returned(v) == [raised |-> "none", value |-> v]
Raised(e) == [raised |-> e, value |-> NoneV]

\* The ASCII characters of the model's byte codes.
Chr(b) ==
    CASE b = 38 -> "&"
      [] b = 43 -> "+"
      [] b = 49 -> "1"
      [] b = 50 -> "2"
      [] b = 51 -> "3"
      [] b = 61 -> "="
      [] b = 97 -> "a"
      [] b = 98 -> "b"
      [] b = 108 -> "l"
      [] b = 110 -> "n"
      [] b = 117 -> "u"
      [] b = 120 -> "x"
      [] b = 121 -> "y"
      [] b = 123 -> "{"
      [] OTHER -> "?"

\* raw_body.decode(charset): an unknown codec raises LookupError; under
\* utf-8 a byte of the model above 127 (0xFF) is never valid.
BytesDecode(raw, charset) ==
    IF charset # "utf-8" THEN Raised("LookupError")
    ELSE IF \E i \in 1..Len(raw) : raw[i] > 127 THEN Raised("UnicodeDecodeError")
    ELSE Returned(StrV([i \in 1..Len(raw) |-> Chr(raw[i])]))

\* json.loads on the texts of the model: the literals null, true, false
\* and one-digit numbers; anything else there is malformed.
JsonLoads(text) ==
    IF text = <<"n", "u", "l", "l">> THEN Returned(NoneV)
    ELSE IF text = <<"1">> THEN Returned(IntV(1))
    ELSE IF text = <<"2">> THEN Returned(IntV(2))
    ELSE IF text = <<"3">> THEN Returned(IntV(3))
    ELSE Raised("JSONDecodeError")

(***************************************************************************)
(* util.parse_qs(query_string), an async generator function, and the       *)
(* urllib.parse.parse_qs it calls.                                         *)
(***************************************************************************)
\* name_value.split("=", 1)
RECURSIVE IndexOf(_, _, _)
IndexOf(s, c, i) ==
    IF i > Len(s) THEN 0 ELSE IF s[i] = c THEN i ELSE IndexOf(s, c, i + 1)

\* unquote(x.replace("+", " ")); the model's texts hold no "%".
Unquote(s) == [i \in 1..Len(s) |-> IF s[i] = "+" THEN " " ELSE s[i]]

\* urllib.parse.parse_qsl without keep_blank_values or strict_parsing:
\* the (name, value) pairs of the fields that have an "=" and a value.
RECURSIVE ParseQsl(_)
ParseQsl(pieces) ==
    IF pieces = <<>> THEN <<>>
    ELSE LET nv == Head(pieces)
             eq == IndexOf(nv, "=", 1)
             name == SubSeq(nv, 1, eq - 1)
             value == SubSeq(nv, eq + 1, Len(nv))
         IN IF nv = <<>> \/ eq = 0 \/ value = <<>>
            THEN ParseQsl(Tail(pieces))
            ELSE <<[k |-> Unquote(name), v |-> Unquote(value)]>> \o ParseQsl(Tail(pieces))

\* The dict of urllib.parse.parse_qs: every name with the list of its
\* values, names in the order of their first occurrence.
RECURSIVE GroupPairs(_, _)
GroupPairs(pairs, acc) ==
    IF pairs = <<>> THEN acc
    ELSE LET p == Head(pairs)
             at == {i \in 1..Len(acc) : acc[i].k = p.k}
         IN IF at = {}
            THEN GroupPairs(Tail(pairs), Append(acc, [k |-> p.k, vs |-> <<p.v>>]))
            ELSE GroupPairs(Tail(pairs),
                            [i \in 1..Len(acc) |->
                               IF i \in at
                               THEN [k |-> acc[i].k, vs |-> Append(acc[i].vs, p.v)]
                               ELSE acc[i]])

\* urllib.parse.parse_qs(qs): a value that is neither str nor bytes has
\* no decode method.
UrllibParseQs(qs) ==
    IF qs.t = "str"
    THEN Returned(GroupPairs(ParseQsl(Split(qs.s, "&")), <<>>))
    ELSE Raised("AttributeError")

\* {k: v[0] if len(v) == 1 else v for k, v in query.items()}
Scalarize(query) ==
    DictV([i \in 1..Len(query) |->
             [k |-> query[i].k,
              v |-> IF Len(query[i].vs) = 1
                    THEN StrV(query[i].vs[1])
                    ELSE ListV(query[i].vs)]])

\* anext(parse_qs(arg)): the generator runs to its yield, or raises.
ParseQsFirst(arg) ==
    LET query == UrllibParseQs(arg) IN
    IF query.raised # "none" THEN query ELSE Returned(Scalarize(query.value))

(***************************************************************************)
(* The request, its transport stream and read_all (util.py 15-21).         *)
(***************************************************************************)
\* The size ceiling of a body, 10 MiB in util.py, scaled to the bodies of
\* the model.
MAX_BODY == 12

\* A handler makes at most this many accesses (body, args) to its context.
MaxAccesses == 2

\* read_all on its own is called with limits up to MaxLimit on streams of
\* at most MaxChunks chunks.
MaxLimit == 3
MaxChunks == 3

\*   ctype       the Content-Type header of the request
\*   query       request.query_string
\*   chunks      the chunks the transport delivers, in arrival order
\*   pos         how many chunks the stream has delivered
\*   iterations  how many iterations of the stream were started
\*   requests    how many times the stream was asked for its next chunk
\*   buf, limit  read_all's bytearray and its limit
\*   branch      the caller awaiting read_all: "idle" when none, "read_all"
\*               for a direct call, else the branch of parse_body; "iter"
\*               while the handler iterates the context itself
\*   cbody       Context._body
\*   cargs       Context._args
\*   results     the completed accesses, each with its outcome and with the
\*               iterations it started and the chunks it requested
\*   mark        the stream counters when the running access began
VARIABLES ctype, query, chunks, pos, iterations, requests, buf, limit, branch,
          cbody, cargs, results, mark

requestVars == <<ctype, query, chunks>>
streamVars == <<pos, iterations, requests>>
bodyVars == <<ctype, query, chunks, pos, iterations, requests, buf, limit, branch,
              cbody, cargs, results, mark>>

\* A Content-Type header: absent, or its primary value and its charset and
\* boundary options ("" when the option is not given).
NoHeader == [present |-> FALSE, primary |-> "", charset |-> "", boundary |-> ""]
Header(primary, charset, boundary) ==
    [present |-> TRUE, primary |-> primary, charset |-> charset, boundary |-> boundary]

\* bytes of the bodies of the model
BodyNull == <<110, 117, 108, 108>>
BodyOne == <<49>>
BodyBrace == <<123>>
BodyBadUtf8 == <<255>>
BodyForm == <<97, 61, 49, 38, 97, 61, 50, 38, 98, 61, 51>>
BodySeven == <<97, 97, 97, 97, 97, 97, 97>>

BodyIdle ==
    /\ ctype = NoHeader
    /\ query = <<>>
    /\ chunks = <<>>
    /\ pos = 0
    /\ iterations = 0
    /\ requests = 0
    /\ buf = <<>>
    /\ limit = 0
    /\ branch = "idle"
    /\ cbody = NoneV
    /\ cargs = NoneV
    /\ results = <<>>
    /\ mark = [iterations |-> 0, requests |-> 0]

\* buf += chunk
BufAppend(b, chunk) == b \o chunk

\* The limit test off by one.
OverLimitOrEqual(b, lim) == Len(b) >= lim

\* len(buf) > limit
OverLimit(b, lim) == Len(b) > lim

\* One turn of "async for chunk in proto" in read_all: the stream is asked
\* for its next chunk.  The stream is the protocol object itself, so a new
\* iteration goes on where the last one stopped, and a finished stream
\* stays finished.
ReadTurn ==
    IF pos < Len(chunks)
    THEN LET b == BufAppend(buf, chunks[pos + 1]) IN
         [kind |-> IF OverLimit(b, limit) THEN "raise" ELSE "more",
          buf |-> b, pos |-> pos + 1]
    ELSE [kind |-> "return", buf |-> buf, pos |-> pos]

\* The record of a completed access.
Access(acc, outcome, its, reqs) ==
    [acc |-> acc, raised |-> outcome.raised, value |-> outcome.value,
     iterations |-> its - mark.iterations, requests |-> reqs - mark.requests]

\* read_all(proto, limit) begins: buf = bytearray(), iteration starts.
ReadAllBegin(caller, lim) ==
    /\ buf' = <<>>
    /\ limit' = lim
    /\ branch' = caller
    /\ iterations' = iterations + 1
    /\ mark' = [iterations |-> iterations, requests |-> requests]
    /\ UNCHANGED <<pos, requests>>

(***************************************************************************)
(* read_all called directly.                                               *)
(***************************************************************************)
ReadAllCall ==
    /\ branch = "idle"
    /\ results = <<>>
    /\ ReadAllBegin("read_all", limit)
    /\ UNCHANGED <<requestVars, cbody, cargs, results>>

ReadAllNext ==
    /\ branch = "read_all"
    /\ LET turn == ReadTurn IN
       /\ requests' = requests + 1
       /\ pos' = turn.pos
       /\ buf' = turn.buf
       /\ IF turn.kind = "more"
          THEN UNCHANGED <<branch, results>>
          ELSE /\ branch' = "idle"
               /\ results' = Append(results,
                    Access("read_all",
                           IF turn.kind = "raise" THEN Raised("ValueError")
                           ELSE Returned(BytesV(turn.buf)),
                           iterations, requests + 1))
    /\ UNCHANGED <<requestVars, iterations, limit, cbody, cargs, mark>>

(***************************************************************************)
(* parse_body (util.py 23-44) and the accessors of Context                 *)
(* (wrapper.py 17-27).                                                     *)
(***************************************************************************)
\* str.lower() on the primary values of the model.
Lower(v) ==
    CASE v = "Application/JSON" -> "application/json"
      [] OTHER -> v

\* headers.get("content-type", "") or "application/octet-stream"
RawContentType(h) ==
    IF ~h.present \/ h.primary = ""
    THEN Header("application/octet-stream", "", "")
    ELSE h

\* parse_options_header(raw_ct): the lower-cased primary value and the
\* options.
ParseOptionsHeader(h) ==
    [mime |-> Lower(h.primary), charset |-> h.charset, boundary |-> h.boundary]

\* params.get("charset", "utf-8")
Charset(params) == IF params.charset = "" THEN "utf-8" ELSE params.charset

\* parse_multipart(raw_body, boundary) as a value of the context: the body
\* and the boundary it was decoded from (the loop over the parts of a body
\* is modelled further down, on the parts themselves).
ParseMultipart(raw, boundary) == [t |-> "multipart", raw |-> raw, boundary |-> boundary]

\* The branch of parse_body a MIME type takes.
BranchOf(mime) ==
    CASE mime = "application/json" -> "json"
      [] mime = "application/x-www-form-urlencoded" -> "form"
      [] mime = "multipart/form-data" -> "multipart"
      [] OTHER -> "raw"

\* What parse_body yields first once read_all has returned raw.
Decode(br, raw, params) ==
    LET text == BytesDecode(raw, Charset(params)) IN
    CASE br = "json" ->
           IF text.raised # "none" THEN text ELSE JsonLoads(text.value.s)
      [] br = "form" ->
           IF text.raised # "none" THEN text ELSE Returned(AsyncGenV(text.value))
      [] br = "multipart" -> Returned(ParseMultipart(raw, params.boundary))
      [] OTHER -> Returned(BytesV(raw))

\* An access that completes without touching the stream.
Immediate(acc, outcome) ==
    [acc |-> acc, raised |-> outcome.raised, value |-> outcome.value,
     iterations |-> 0, requests |-> 0]

\* "if self._body is None"
NotLoaded(cache) == cache = NoneV

\* The boundary test left out.
MissingBoundaryNever(params) == FALSE

\* boundary = params.get("boundary"); "if not boundary"
MissingBoundary(params) == params.boundary = ""

\* Context.body is read: the cached value, or parse_body runs up to its
\* first await of read_all.
BodyBegin ==
    /\ branch = "idle"
    /\ Len(results) < MaxAccesses
    /\ LET params == ParseOptionsHeader(RawContentType(ctype)) IN
       IF ~NotLoaded(cbody)
       THEN /\ results' = Append(results, Immediate("body", Returned(cbody)))
            /\ UNCHANGED <<streamVars, buf, limit, branch, mark>>
       ELSE IF BranchOf(params.mime) = "multipart" /\ MissingBoundary(params)
       THEN /\ results' = Append(results, Immediate("body", Raised("ValueError")))
            /\ UNCHANGED <<streamVars, buf, limit, branch, mark>>
       ELSE /\ ReadAllBegin(BranchOf(params.mime), MAX_BODY)
            /\ UNCHANGED results
    /\ UNCHANGED <<requestVars, cbody, cargs>>

\* The body access goes on: read_all takes its next turn; when it returns,
\* parse_body decodes and yields, and the accessor stores the value.
BodyNext ==
    /\ branch \in {"json", "form", "multipart", "raw"}
    /\ LET turn == ReadTurn
           outcome ==
               IF turn.kind = "raise" THEN Raised("ValueError")
               ELSE Decode(branch, turn.buf, ParseOptionsHeader(RawContentType(ctype)))
       IN
       /\ requests' = requests + 1
       /\ pos' = turn.pos
       /\ buf' = turn.buf
       /\ IF turn.kind = "more"
          THEN UNCHANGED <<branch, results, cbody>>
          ELSE /\ branch' = "idle"
               /\ results' = Append(results,
                                    Access("body", outcome, iterations, requests + 1))
               /\ cbody' = IF outcome.raised = "none" THEN outcome.value ELSE cbody
    /\ UNCHANGED <<requestVars, iterations, limit, cargs, mark>>

\* The handler iterates the context: "async for x in context" calls
\* Context.__aiter__, which returns proto.__aiter__(), and collects the
\* chunks as get_body of app.py does (body = b""; body += x).
RawBegin ==
    /\ branch = "idle"
    /\ Len(results) < MaxAccesses
    /\ buf' = <<>>
    /\ branch' = "iter"
    /\ iterations' = iterations + 1
    /\ mark' = [iterations |-> iterations, requests |-> requests]
    /\ UNCHANGED <<requestVars, pos, requests, limit, cbody, cargs, results>>

\* One turn of that loop: the stream is asked for its next chunk.
RawNext ==
    /\ branch = "iter"
    /\ requests' = requests + 1
    /\ IF pos < Len(chunks)
       THEN /\ pos' = pos + 1
            /\ buf' = BufAppend(buf, chunks[pos + 1])
            /\ UNCHANGED <<branch, results>>
       ELSE /\ branch' = "idle"
            /\ results' = Append(results,
                                 Access("iter", Returned(BytesV(buf)),
                                        iterations, requests + 1))
            /\ UNCHANGED <<pos, buf>>
    /\ UNCHANGED <<requestVars, iterations, limit, cbody, cargs, mark>>

\* The argument Context.args passes to parse_qs: self.
ArgsArgument == ContextV

\* Context.args is read.
ArgsAccess ==
    /\ branch = "idle"
    /\ Len(results) < MaxAccesses
    /\ LET outcome == ParseQsFirst(ArgsArgument) IN
       IF ~NotLoaded(cargs)
       THEN /\ results' = Append(results, Immediate("args", Returned(cargs)))
            /\ UNCHANGED cargs
       ELSE /\ results' = Append(results, Immediate("args", outcome))
            /\ cargs' = IF outcome.raised = "none" THEN outcome.value ELSE cargs
    /\ UNCHANGED <<requestVars, streamVars, buf, limit, branch, cbody, mark>>

\* The requests of the model.
ContentTypes ==
    {NoHeader,
     Header("", "", ""),
     Header("application/json", "", ""),
     Header("Application/JSON", "utf-8", ""),
     Header("application/json", "bogus", ""),
     Header("application/x-www-form-urlencoded", "", ""),
     Header("multipart/form-data", "", ""),
     Header("multipart/form-data", "", "XX"),
     Header("text/plain", "", "")}

BodyChunkSeqs ==
    {<<>>,
     <<BodyNull>>,
     <<SubSeq(BodyNull, 1, 2), SubSeq(BodyNull, 3, 4)>>,
     <<BodyOne>>,
     <<<<>>, BodyOne>>,
     <<BodyBrace>>,
     <<BodyBadUtf8>>,
     <<BodyForm>>,
     <<SubSeq(BodyForm, 1, 5), SubSeq(BodyForm, 6, 11)>>,
     <<BodySeven, BodySeven, BodyOne>>}

QueryForm == <<"a", "=", "1", "&", "a", "=", "2", "&", "b", "=", "3">>
Queries == {<<>>, QueryForm}

InitContext ==
    /\ ctype \in ContentTypes
    /\ query \in Queries
    /\ chunks \in BodyChunkSeqs
    /\ pos = 0
    /\ iterations = 0
    /\ requests = 0
    /\ buf = <<>>
    /\ limit = 0
    /\ branch = "idle"
    /\ cbody = NoneV
    /\ cargs = NoneV
    /\ results = <<>>
    /\ mark = [iterations |-> 0, requests |-> 0]

\* The inputs of read_all called on its own.
SmallChunks == {<<>>, <<1>>, <<2, 3>>}
SmallChunkSeqs == UNION {[1..n -> SmallChunks] : n \in 0..MaxChunks}

InitReadAll ==
    /\ ctype = NoHeader
    /\ query = <<>>
    /\ chunks \in SmallChunkSeqs
    /\ pos = 0
    /\ iterations = 0
    /\ requests = 0
    /\ buf = <<>>
    /\ limit \in 0..MaxLimit
    /\ branch = "idle"
    /\ cbody = NoneV
    /\ cargs = NoneV
    /\ results = <<>>
    /\ mark = [iterations |-> 0, requests |-> 0]

(***************************************************************************)
(* parse_multipart (util.py 47-79): the loop over parser.parts().  A part  *)
(* is what MultipartParser delivers: the name of its Content-Disposition,  *)
(* whether the disposition has a filename option (plain or extended), the  *)
(* part's filename and content type, and its raw bytes.                    *)
(***************************************************************************)
\* parse_multipart is run on bodies of at most MaxParts parts.
MaxParts == 3

Part(name, has_filename, filename, content_type, raw) ==
    [name |-> name, has_filename |-> has_filename, filename |-> filename,
     content_type |-> content_type, raw |-> raw]

NameTag == <<"t", "a", "g">>
NameFile == <<"f", "i", "l", "e">>
FieldNames == {NameTag, NameFile}

TextParts ==
    {Part(n, FALSE, "", "", raw) : n \in FieldNames, raw \in {<<120>>, <<121>>, <<255>>}}
FileParts ==
    {Part(n, TRUE, "f.txt", "text/plain", <<120, 121>>) : n \in FieldNames}
Parts == TextParts \cup FileParts
PartSeqs == UNION {[1..n -> Parts] : n \in 0..MaxParts}

\*   mparts   the parts of the body, in body order
\*   mi       how many parts the loop has taken
\*   temp     the dict being built: its items in insertion order
\*   mppc     idle, start, loop, done
VARIABLES mparts, mi, temp, mppc

multipartVars == <<mparts, mi, temp, mppc>>

MultipartIdle ==
    /\ mparts = <<>>
    /\ mi = 0
    /\ temp = <<>>
    /\ mppc = "idle"

InitMultipart ==
    /\ mparts \in PartSeqs
    /\ mi = 0
    /\ temp = <<>>
    /\ mppc = "start"

\* part.raw.decode("utf-8", errors="replace"): an invalid byte becomes
\* U+FFFD.
DecodeReplace(raw) ==
    [i \in 1..Len(raw) |-> IF raw[i] > 127 THEN "U+FFFD" ELSE Chr(raw[i])]

\* The dict made for a part with a filename.
FileDict(part) ==
    DictV(<<[k |-> "filename", v |-> part.filename],
            [k |-> "content-type", v |-> part.content_type],
            [k |-> "content", v |-> BytesV(part.raw)]>>)

\* The value of a part: a file dict, or its text.
PartValue(part) ==
    IF part.has_filename THEN FileDict(part) ELSE StrV(DecodeReplace(part.raw))

\* temp.get(name)
TempGet(items, name) ==
    IF \E i \in 1..Len(items) : items[i].k = name
    THEN items[CHOOSE i \in 1..Len(items) : items[i].k = name].v
    ELSE NoneV

\* temp[name] = v: a new key goes last, a present key keeps its place.
TempSet(items, name, v) ==
    IF \E i \in 1..Len(items) : items[i].k = name
    THEN [i \in 1..Len(items) |->
            IF items[i].k = name THEN [k |-> name, v |-> v] ELSE items[i]]
    ELSE Append(items, [k |-> name, v |-> v])

\* The second occurrence puts the new value first.
AccumulateReversed(items, name, value) ==
    LET existing == TempGet(items, name) IN
    IF existing = NoneV THEN TempSet(items, name, value)
    ELSE IF existing.t # "list"
    THEN TempSet(items, name, ListV(<<value, existing>>))
    ELSE TempSet(items, name, ListV(Append(existing.items, value)))

\* Lines 69-77: the first occurrence stores the value, the second wraps
\* both in a list, a later one appends to the list.
Accumulate(items, name, value) ==
    LET existing == TempGet(items, name) IN
    IF existing = NoneV THEN TempSet(items, name, value)
    ELSE IF existing.t # "list"
    THEN TempSet(items, name, ListV(<<existing, value>>))
    ELSE TempSet(items, name, ListV(Append(existing.items, value)))

\* parser = MultipartParser(...); temp = {}
ParseMultipartBegin ==
    /\ mppc = "start"
    /\ temp' = <<>>
    /\ mi' = 0
    /\ mppc' = "loop"
    /\ UNCHANGED mparts

\* One turn of "for part in parser.parts()".
ParseMultipartPart ==
    /\ mppc = "loop"
    /\ mi < Len(mparts)
    /\ LET part == mparts[mi + 1] IN
       temp' = Accumulate(temp, part.name, PartValue(part))
    /\ mi' = mi + 1
    /\ UNCHANGED <<mparts, mppc>>

\* return temp
ParseMultipartReturn ==
    /\ mppc = "loop"
    /\ mi = Len(mparts)
    /\ mppc' = "done"
    /\ UNCHANGED <<mparts, mi, temp>>

(***************************************************************************)
(* Specifications.                                                         *)
(***************************************************************************)
vars == <<routeVars, matchVars, bodyVars, multipartVars, callVars>>

\* Registration and dispatch (class App).
Init == InitRoutes /\ MatchIdle /\ BodyIdle /\ MultipartIdle /\ CallIdle

Next ==
    \/ RegisterStep /\ UNCHANGED <<matchVars, bodyVars, multipartVars, callVars>>
    \/ HandleStep /\ UNCHANGED <<matchVars, bodyVars, multipartVars, callVars>>

Spec == Init /\ [][Next]_vars

\* The pattern compiler and matcher over all templates and paths.
InitM == InitMatch /\ InitRoutes /\ BodyIdle /\ MultipartIdle /\ CallIdle

NextM ==
    \/ Compile /\ UNCHANGED <<routeVars, bodyVars, multipartVars, callVars>>
    \/ Match /\ UNCHANGED <<routeVars, bodyVars, multipartVars, callVars>>

SpecMatch == InitM /\ [][NextM]_vars

\* read_all on its own, over all small streams and limits.
InitR == InitReadAll /\ InitRoutes /\ MatchIdle /\ MultipartIdle /\ CallIdle

NextR ==
    \/ ReadAllCall /\ UNCHANGED <<routeVars, matchVars, multipartVars, callVars>>
    \/ ReadAllNext /\ UNCHANGED <<routeVars, matchVars, multipartVars, callVars>>

SpecReadAll == InitR /\ [][NextR]_vars

\* One request's context: the accesses a handler makes to body and args
\* and its iterations of the context.
InitC == InitContext /\ InitRoutes /\ MatchIdle /\ MultipartIdle /\ CallIdle

NextC ==
    \/ BodyBegin /\ UNCHANGED <<routeVars, matchVars, multipartVars, callVars>>
    \/ BodyNext /\ UNCHANGED <<routeVars, matchVars, multipartVars, callVars>>
    \/ ArgsAccess /\ UNCHANGED <<routeVars, matchVars, multipartVars, callVars>>
    \/ RawBegin /\ UNCHANGED <<routeVars, matchVars, multipartVars, callVars>>
    \/ RawNext /\ UNCHANGED <<routeVars, matchVars, multipartVars, callVars>>

SpecContext == InitC /\ [][NextC]_vars

\* parse_multipart over all bodies of at most MaxParts parts.
InitP == InitMultipart /\ InitRoutes /\ MatchIdle /\ BodyIdle /\ CallIdle

NextP ==
    \/ ParseMultipartBegin /\ UNCHANGED <<routeVars, matchVars, bodyVars, callVars>>
    \/ ParseMultipartPart /\ UNCHANGED <<routeVars, matchVars, bodyVars, callVars>>
    \/ ParseMultipartReturn /\ UNCHANGED <<routeVars, matchVars, bodyVars, callVars>>

SpecMultipart == InitP /\ [][NextP]_vars

\* One request through App.__call__, on the application of app.py or on
\* the application of the variant handlers.
InitA == InitCall /\ MatchIdle /\ BodyIdle /\ MultipartIdle

NextA ==
    \/ CallHandler /\ UNCHANGED <<matchVars, bodyVars, multipartVars>>
    \/ Translate /\ UNCHANGED <<matchVars, bodyVars, multipartVars>>
    \/ StreamPull /\ UNCHANGED <<matchVars, bodyVars, multipartVars>>
    \/ StreamSend /\ UNCHANGED <<matchVars, bodyVars, multipartVars>>

SpecCall == InitA /\ [][NextA]_vars

(***************************************************************************)
(* Claims about registration and dispatch, checked under Spec.             *)
(***************************************************************************)
\* The parametric entries that answer the last request: same method and a
\* regex matching the path.
Candidates ==
    {i \in 1..Len(parametric) :
        /\ parametric[i].method = last.method
        /\ RegexMatch(parametric[i].regex, last.path).matched}

MinOf(S) == CHOOSE i \in S : \A j \in S : i <= j

LastKey == <<last.path, last.method>>

\* C1: a request whose (path, method) is the key of a registered static
\* route is dispatched to that route's handler with no path parameters,
\* never to a parametric route matching the same path, whatever the order
\* of the registrations.
C1_StaticBeatsParametric ==
    (last.op = "handler" /\ LastKey \in DOMAIN static) =>
        /\ last.route = "static"
        /\ last.invoked = Invoked(static[LastKey], EmptyDict)
        /\ last.tried = {}

\* A request served by a static route while a parametric route of the same
\* method matches its path too.
C1_Witness ==
    /\ last.op = "handler"
    /\ LastKey \in DOMAIN static
    /\ Candidates # {}
    /\ last.route = "static"

\* C2: with no static match, the handler invoked is the one of the
\* earliest-registered parametric entry with the request's method and a
\* matching pattern, called with the captures; regex.match is called only
\* on entries of the request's method, none after the chosen one.
C2_EarliestParametricWins ==
    (last.op = "handler" /\ LastKey \notin DOMAIN static) =>
        /\ \A i \in last.tried : parametric[i].method = last.method
        /\ IF Candidates # {}
           THEN /\ last.route = "parametric"
                /\ last.invoked =
                     Invoked(parametric[MinOf(Candidates)].fn,
                             RegexMatch(parametric[MinOf(Candidates)].regex,
                                        last.path).groupdict)
                /\ \A i \in last.tried : i <= MinOf(Candidates)
           ELSE last.route # "parametric"

\* A request answered by the first of two matching parametric routes with
\* different handlers, and one answered by a route registered after an
\* entry of another method.
C2_Witness ==
    /\ last.op = "handler"
    /\ LastKey \notin DOMAIN static
    /\ last.route = "parametric"
    /\ Len(parametric) = 2
    /\ parametric[1].fn # parametric[2].fn
    /\ \/ Candidates = {1, 2}
       \/ /\ Candidates = {2}
          /\ parametric[1].method # last.method
          /\ RegexMatch(parametric[1].regex, last.path).matched

\* C4: a register call with a non-callable handler, or with a static key
\* (path, upper-cased method) already in the static table, raises and
\* leaves the static table, the parametric list and the fallback unchanged.
C4_RegisterErrorsLeaveTables ==
    [][(/\ last'.op = "register"
        /\ \/ last'.func \notin Handlers
           \/ /\ last'.path # Star
              /\ ~Contains(last'.path, "{")
              /\ <<last'.path, Upper(last'.method)>> \in DOMAIN static)
       => /\ last'.raised \in {"TypeError", "ValueError"}
          /\ last'.func \notin Handlers => last'.raised = "TypeError"
          /\ UNCHANGED tableVars]_vars

\* A duplicate static registration was refused, with the method given in
\* another case than the one registered first.
C4_Witness ==
    /\ last.op = "register"
    /\ last.raised = "ValueError"
    /\ last.method # Upper(last.method)
    /\ <<last.path, Upper(last.method)>> \in DOMAIN static

\* C5: a request matching no static and no parametric route is handled by
\* the fallback when its method is "*" or equals the request's, and is
\* otherwise answered 404 plain text with no handler invoked; the fallback
\* slot holds the most recent fallback registration.
C5_FallbackOr404 ==
    /\ (last.op = "handler" /\ LastKey \notin DOMAIN static /\ Candidates = {}) =>
         IF fallback # <<>> /\ fallback[1] \in {"*", last.method}
         THEN /\ last.route = "fallback"
              /\ last.invoked = Invoked(fallback[2], EmptyDict)
         ELSE /\ last.invoked = <<>>
              /\ last.raised = "none"
              /\ last.response = PlainTextResponse("Not Found", 404)
    /\ (last.op = "register" /\ last.path = Star /\ last.raised = "none") =>
         fallback = <<Upper(last.method), last.func>>

\* A request refused by a single-method fallback of another method.
C5_Witness ==
    /\ last.op = "handler"
    /\ fallback # <<>>
    /\ fallback[1] \notin {"*", last.method}
    /\ last.response.status_code = 404

(***************************************************************************)
(* Claims about the pattern matcher, checked under SpecMatch.              *)
(***************************************************************************)
\* A template segment of the form {name}.
IsCapture(segment) == StartsWith(segment, "{") /\ EndsWith(segment, "}")

TemplateSegments == Split(Strip(tpl, "/"), "/")

\* The segments of a path "/s1/s2/.../sn".
PathSegments == Split(Tail(pth), "/")

\* The path has the template's number of segments, equal literal segments
\* and a non-empty text at every capture.
Corresponds ==
    /\ pth # <<>>
    /\ Head(pth) = "/"
    /\ Len(PathSegments) = Len(TemplateSegments)
    /\ \A i \in 1..Len(TemplateSegments) :
         IF IsCapture(TemplateSegments[i])
         THEN PathSegments[i] # <<>>
         ELSE PathSegments[i] = TemplateSegments[i]

CaptureIndexes == {i \in 1..Len(TemplateSegments) : IsCapture(TemplateSegments[i])}

CaptureName(i) == SubSeq(TemplateSegments[i], 2, Len(TemplateSegments[i]) - 1)

\* Each capture name bound to the text of its path segment.
ExpectedParams ==
    [n \in {CaptureName(i) : i \in CaptureIndexes} |->
        PathSegments[CHOOSE i \in CaptureIndexes : CaptureName(i) = n]]

\* C3: the compiled pattern matches a path if and only if the path has the
\* template's number of segments, every literal segment equal as exact
\* text and every capture segment non-empty; on a match the parameters
\* are exactly the capture names bound to their path segments.
C3_MatchIffCorresponds ==
    mpc = "matched" =>
        /\ mres.matched <=> Corresponds
        /\ mres.matched => mres.groupdict = ExpectedParams


(***************************************************************************)
(* Claims about read_all, checked under SpecReadAll.                       *)
(***************************************************************************)
\* The concatenation of a sequence of chunks, in order.
RECURSIVE Flatten(_)
Flatten(seqs) == IF seqs = <<>> THEN <<>> ELSE Head(seqs) \o Flatten(Tail(seqs))

\* The size of the first k chunks of the stream.
PrefixSize(k) == Len(Flatten(SubSeq(chunks, 1, k)))

\* The chunks after which the accumulated size exceeds the limit.
Exceeding == {k \in 1..Len(chunks) : PrefixSize(k) > limit}

\* C8: read_all fails with the body-too-large error right after the first
\* chunk k that takes the accumulated size over the limit, having
\* requested k chunks and no more and returning no bytes; when the total
\* size is at most the limit it returns the concatenation of all chunks
\* in arrival order.
C8_ReadAllLimit ==
    /\ branch = "read_all" => (Len(buf) <= limit /\ requests = pos)
    /\ results # <<>> =>
         IF Exceeding # {}
         THEN /\ results[1].raised = "ValueError"
              /\ results[1].value = NoneV
              /\ results[1].requests = MinOf(Exceeding)
              /\ pos = MinOf(Exceeding)
         ELSE /\ results[1].raised = "none"
              /\ results[1].value = BytesV(Flatten(chunks))
              /\ pos = Len(chunks)
              /\ results[1].requests = Len(chunks) + 1

\* read_all failed while the stream still held a chunk it never requested,
\* a prefix of the stream being within the limit.
C8_Witness ==
    /\ results # <<>>
    /\ results[1].raised = "ValueError"
    /\ pos < Len(chunks)
    /\ pos > 1
    /\ PrefixSize(pos - 1) > 0

(***************************************************************************)
(* Claims about the context's accessors, checked under SpecContext.        *)
(***************************************************************************)
BodyAccesses == {i \in DOMAIN results : results[i].acc = "body"}
ArgsAccesses == {i \in DOMAIN results : results[i].acc = "args"}

RequestMime == ParseOptionsHeader(RawContentType(ctype)).mime

\* C6: body decoding is idempotent for every content type and decoded
\* value: a body access after one that returned a value returns the same
\* value and does not iterate the transport stream again.
C6_BodyIdempotent ==
    \A i, j \in BodyAccesses :
        (i < j /\ results[i].raised = "none") =>
            /\ results[j].raised = "none"
            /\ results[j].value = results[i].value
            /\ results[j].iterations = 0
            /\ results[j].requests = 0

\* The mapping util.parse_qs yields for a text.
QsMapping(text) == ParseQsFirst(StrV(text)).value

\* C7: args returns the mapping decoded from the request's query string
\* (a scalar for a key occurring once, the list of values otherwise), and
\* a second access returns the same mapping.
C7_ArgsDecoded ==
    \A i \in ArgsAccesses :
        /\ results[i].raised = "none"
        /\ results[i].value = QsMapping(query)

\* {a: ["1", "2"], b: "3"}
FormExample ==
    DictV(<<[k |-> <<"a">>, v |-> ListV(<<<<"1">>, <<"2">>>>)],
            [k |-> <<"b">>, v |-> StrV(<<"3">>)]>>)

\* C9: the body of an application/x-www-form-urlencoded request is the
\* mapping of its keys, in first-occurrence order, to a scalar string or
\* to the ordered list of the values; "a=1&a=2&b=3" gives
\* {a: ["1","2"], b: "3"}.
C9_FormBodyMapping ==
    \A i \in BodyAccesses :
        (RequestMime = "application/x-www-form-urlencoded" /\ results[i].raised = "none") =>
            /\ results[i].value.t = "dict"
            /\ results[i].value =
                 QsMapping(BytesDecode(Flatten(chunks), "utf-8").value.s)
            /\ Flatten(chunks) = BodyForm => results[i].value = FormExample

\* The Content-Type is absent, empty or none of the three decoded types.
Unrecognized ==
    \/ ~ctype.present
    \/ ctype.primary = ""
    \/ Lower(ctype.primary) \notin
         {"application/json", "application/x-www-form-urlencoded", "multipart/form-data"}

\* C10: for a request whose Content-Type is absent, empty or unrecognized,
\* the decoded body is the concatenation of the stream's chunks in arrival
\* order, byte for byte, no chunk dropped, duplicated or reordered (the
\* handler taking no chunk from the context by itself).
C10_RawBodyUnchanged ==
    (Unrecognized /\ \A k \in DOMAIN results : results[k].acc # "iter") =>
        \A i \in BodyAccesses :
            results[i].raised = "none" => results[i].value = BytesV(Flatten(chunks))

(***************************************************************************)
(* Claims about parse_multipart, checked under SpecMultipart.              *)
(***************************************************************************)
\* The values of the parts named n among the first k parts, in body order.
RECURSIVE Occurrences(_, _)
Occurrences(n, k) ==
    IF k = 0 THEN <<>>
    ELSE IF mparts[k].name = n
    THEN Append(Occurrences(n, k - 1), PartValue(mparts[k]))
    ELSE Occurrences(n, k - 1)

\* C11: for each field name among the parts taken so far, the result holds
\* the part's value directly when the name occurs once and otherwise the
\* list of all its values, as many as its occurrences and in body order; a
\* part with a filename gives the file value {filename, content-type,
\* content}, a part without one its text; the result has no other key.
C11_MultipartAccumulation ==
    mppc \in {"loop", "done"} =>
        /\ \A n \in FieldNames :
             LET occ == Occurrences(n, mi) IN
             TempGet(temp, n) =
                 IF occ = <<>> THEN NoneV
                 ELSE IF Len(occ) = 1 THEN occ[1]
                 ELSE ListV(occ)
        /\ \A i \in 1..Len(temp) : temp[i].k \in {mparts[j].name : j \in 1..mi}
        /\ \A i, j \in 1..Len(temp) : i # j => temp[i].k # temp[j].k
        /\ \A j \in 1..mi :
             PartValue(mparts[j]) =
                 IF mparts[j].has_filename
                 THEN DictV(<<[k |-> "filename", v |-> mparts[j].filename],
                              [k |-> "content-type", v |-> mparts[j].content_type],
                              [k |-> "content", v |-> BytesV(mparts[j].raw)]>>)
                 ELSE StrV([b \in 1..Len(mparts[j].raw) |->
                              IF mparts[j].raw[b] = 120 THEN "x"
                              ELSE IF mparts[j].raw[b] = 121 THEN "y"
                              ELSE "U+FFFD"])

\* A body of three parts of one name, a text, a file and another text,
\* decoded to the list of the three values in that order.
C11_Witness ==
    /\ mppc = "done"
    /\ Len(mparts) = 3
    /\ \A j \in 1..3 : mparts[j].name = NameTag
    /\ ~mparts[1].has_filename
    /\ mparts[2].has_filename
    /\ ~mparts[3].has_filename
    /\ mparts[1].raw # mparts[3].raw
    /\ TempGet(temp, NameTag).t = "list"
    /\ Len(TempGet(temp, NameTag).items) = 3

(***************************************************************************)
(* Claims about App.__call__, checked under SpecCall.                      *)
(***************************************************************************)
ResponsePrimitives == {"response_file", "response_stream", "response_bytes", "response_str"}
SinkPrimitives == {"send_str", "send_bytes"}

IsPrimitive(ev) == ev.prim \in ResponsePrimitives
IsSend(ev) == ev.prim \in SinkPrimitives

\* The calls of response primitives, and the sends on the sink, in order.
PrimitiveCalls == SelectSeq(trace, IsPrimitive)
Sends == SelectSeq(trace, IsSend)

InternalServerError(ok) ==
    [prim |-> "response_str", status |-> 500, content_type |-> "text/plain",
     body |-> "Internal Server Error", chunk |-> NoneV, ok |-> ok]

\* C12: whenever the handler selected for a request raises, App.handler
\* returns the 500 plain text "Internal Server Error" instead of raising,
\* and the request is answered by one send-string call with status 500,
\* content type text/plain and that fixed text, and logged as 500.
C12_HandlerErrorIs500 ==
    (cpc # "start" /\ hraised # "none") =>
        /\ response = [variant |-> "PlainText", status_code |-> 500,
                       message |-> "Internal Server Error"]
        /\ cpc \in {"translate", "done"}
        /\ cpc = "done" =>
             /\ \E ok \in BOOLEAN : trace = <<InternalServerError(ok)>>
             /\ logged = <<500>>

\* A handler with a matching signature raised from its body and the 500
\* was accepted by the transport.
C12_Witness ==
    /\ cpc = "done"
    /\ hraised = "body"
    /\ last.invoked # <<>>
    /\ last.invoked[1].fn = "file"
    /\ trace = <<InternalServerError(TRUE)>>

\* C13: when the response primitive of the response a handler returned
\* raises, nothing being committed yet, the request is answered with a 500
\* plain-text response; when a send on the stream sink raises after the
\* stream was opened, the failure is the last call made.
C13_SendFailureAnswered ==
    (cpc = "done" /\ IsResponse(response) /\ hraised = "none") =>
        /\ ~trace[1].ok =>
             /\ Len(trace) = 2
             /\ \E ok \in BOOLEAN : trace[2] = InternalServerError(ok)
        /\ \A i \in 2..Len(trace) :
             (trace[1].prim = "response_stream" /\ ~trace[i].ok) => i = Len(trace)

\* The primitive a response variant is translated to.
Expected(resp) ==
    CASE resp.variant = "File" -> "response_file"
      [] resp.variant = "Stream" -> "response_stream"
      [] resp.message \in BytesMessages -> "response_bytes"
      [] OTHER -> "response_str"

\* C14 as stated: for every request whose handler returns a Response
\* variant, exactly one response primitive is invoked, exactly once, the
\* one chosen by the variant.
C14_ExactlyOnePrimitive ==
    (cpc = "done" /\ IsResponse(response)) =>
        /\ Len(PrimitiveCalls) = 1
        /\ PrimitiveCalls[1].prim = Expected(response)

\* C14 amended: the primitive chosen by the variant is invoked exactly
\* once, with the response's status, and it is the first call; no other
\* response primitive is invoked, except that when send-file raised,
\* send-string is invoked once with the 500 plain text.
C14_OnePrimitiveUnlessFileFails ==
    (cpc \in {"pull", "send", "done"} /\ IsResponse(response)) =>
        /\ trace[1].prim = Expected(response)
        /\ trace[1].status = response.status_code
        /\ IF response.variant = "File" /\ ~trace[1].ok
           THEN /\ Len(trace) = 2
                /\ \E ok \in BOOLEAN : trace[2] = InternalServerError(ok)
           ELSE Len(PrimitiveCalls) = 1

\* A File response was translated to send-file, which raised, and the
\* 500 was sent by send-string.
C14_Witness ==
    /\ cpc = "done"
    /\ response.variant = "File"
    /\ trace[1].prim = "response_file"
    /\ ~trace[1].ok
    /\ Len(PrimitiveCalls) = 2
    /\ PrimitiveCalls[2].prim = "response_str"

\* C15: with the registrations of app.py and a working transport, GET /
\* is answered 200 with the plain text "Hello, World!", GET
\* /test/report.pdf 200 with a plain text naming report.pdf, and POST
\* /get-body with the body {"x":1} with a body reflecting it.
C15_ExampleApplication ==
    (/\ cpc = "done"
     /\ static = ExampleStatic
     /\ parametric = ExampleParametric
     /\ hraised # "body"
     /\ \A i \in 1..Len(trace) : trace[i].ok) =>
        /\ (last.path = Root /\ last.method = "GET") =>
             /\ Len(trace) = 1
             /\ trace[1].status = 200
             /\ trace[1].content_type = "text/plain"
             /\ trace[1].body = "Hello, World!"
        /\ (last.path = PathTestReport /\ last.method = "GET") =>
             /\ Len(trace) = 1
             /\ trace[1].status = 200
             /\ trace[1].content_type = "text/plain"
             /\ trace[1].body = "Serving static file: report.pdf"
        /\ (last.path = PathGetBody /\ last.method = "POST") =>
             /\ Len(trace) = 1
             /\ trace[1].body = "b'{\"x\":1}'"

\* C18: for a Stream response the stream is opened first and no other
\* response primitive is called; every send follows the pull of its chunk
\* and every pulled chunk is sent before the next pull; the chunks sent
\* are a prefix of the producer's, strings by send_str and bytes by
\* send_bytes; a call that raised is the last one and the logged status is
\* then 500; when nothing raises every chunk is sent and the logged status
\* is the response's.
C18_StreamPrefixInOrder ==
    (cpc \in {"pull", "send", "done"} /\ IsResponse(response)
        /\ response.variant = "Stream") =>
        /\ trace[1].prim = "response_stream"
        /\ Len(PrimitiveCalls) = 1
        /\ Len(Sends) <= Len(response.body)
        /\ \A i \in 1..Len(Sends) :
             /\ Sends[i].chunk = response.body[i]
             /\ Sends[i].prim =
                  IF response.body[i] \in {StrV(<<"a">>)} THEN "send_str" ELSE "send_bytes"
        /\ \A k \in 2..Len(trace) :
             /\ IsSend(trace[k]) =>
                  /\ trace[k - 1].prim = "__anext__"
                  /\ trace[k - 1].ok
                  /\ trace[k - 1].chunk = trace[k].chunk
             /\ (trace[k].prim = "__anext__" /\ trace[k].ok /\ k < Len(trace)) =>
                  IsSend(trace[k + 1])
        /\ \A k \in 1..Len(trace) : ~trace[k].ok => (k = Len(trace) /\ cpc = "done")
        /\ cpc = "done" =>
             IF \E k \in 1..Len(trace) : ~trace[k].ok
             THEN logged = <<500>>
             ELSE /\ logged = <<response.status_code>>
                  /\ Len(Sends) = Len(response.body)

\* A text chunk and a bytes chunk were pulled; the first was sent and the
\* send of the second raised.
C18_Witness ==
    /\ cpc = "done"
    /\ response.variant = "Stream"
    /\ Len(Sends) = 2
    /\ Sends[1].prim # Sends[2].prim
    /\ Sends[1].ok
    /\ ~Sends[2].ok

\* C20: at most one user handler is invoked per request; when the handler
\* selected raises, it alone was invoked, it is the one the tables select
\* (static before parametric before fallback), and the response is the
\* 500: no later parametric route and no fallback is tried.
C20_OneHandlerPerRequest ==
    cpc # "start" =>
        /\ Len(last.invoked) <= 1
        /\ last.route # "none" <=> Len(last.invoked) = 1
        /\ hraised # "none" =>
             /\ Len(last.invoked) = 1
             /\ response.status_code = 500
             /\ last.response = response
             /\ last.invoked[1].fn =
                  IF LastKey \in DOMAIN static THEN static[LastKey]
                  ELSE IF Candidates # {} THEN parametric[MinOf(Candidates)].fn
                  ELSE fallback[2]

\* The first of two matching parametric routes raised while the second
\* and the fallback could have answered.
C20_Witness ==
    /\ cpc = "done"
    /\ hraised = "body"
    /\ last.route = "parametric"
    /\ Cardinality(Candidates) = 2
    /\ fallback # <<>>
    /\ fallback[1] = "*"
    /\ Len(last.invoked) = 1

(***************************************************************************)
(* Further claims about the context, checked under SpecContext.            *)
(***************************************************************************)
\* C16: within one request the transport stream is iterated at most once,
\* for any sequence of body accesses and iterations of the context: no
\* second iteration is started and the stream is not asked for a chunk
\* after it was read to completion.
C16_StreamIteratedOnce ==
    /\ iterations <= 1
    /\ requests <= Len(chunks) + 1

\* A body access that failed with the body-too-large error.
TooLarge(i) ==
    /\ results[i].acc = "body"
    /\ results[i].raised = "ValueError"
    /\ results[i].requests > 0

\* C17: after a body access failed with the body-too-large error, no later
\* access of the request takes a chunk from the stream and no body access
\* returns a decoded body.
C17_NothingAfterTooLarge ==
    \A i, j \in DOMAIN results :
        (TooLarge(i) /\ i < j) =>
            /\ results[j].requests = 0
            /\ results[j].iterations = 0
            /\ results[j].acc = "body" => results[j].raised # "none"

\* C19: on a multipart/form-data request without a boundary, every body
\* access raises the decode error to its caller without starting an
\* iteration of the stream or asking it for a chunk, read_all is never
\* begun for the body, and the body cache stays unloaded.
C19_MissingBoundary ==
    (RequestMime = "multipart/form-data" /\ ctype.boundary = "") =>
        /\ NotLoaded(cbody)
        /\ branch \notin {"json", "form", "multipart", "raw"}
        /\ \A i \in BodyAccesses :
             /\ results[i].raised = "ValueError"
             /\ results[i].value = NoneV
             /\ results[i].iterations = 0
             /\ results[i].requests = 0

\* Two body accesses in a row failed on a request that has a body to read,
\* none of it taken.
C19_Witness ==
    /\ RequestMime = "multipart/form-data"
    /\ ctype.boundary = ""
    /\ BodyAccesses = {1, 2}
    /\ chunks # <<>>
    /\ pos = 0
    /\ requests = 0

====
